---------------------------- MODULE Spec2Model ----------------------------
(***************************************************************************)
(* Round-up accumulation pipeline of coffee-change: the wallet-init and    *)
(* round-up tracking routes, the Helius transaction source, the baseline   *)
(* tracker and the round-up calculator with its ledger.                    *)
(*                                                                         *)
(* Numbers.  Token amounts are held in hundredths of a token, unit prices  *)
(* in tenths of a dollar, so that amount * price is a USD value in         *)
(* thousandths of a dollar (mills), computed exactly.  A value with two    *)
(* decimals is a multiple of 10 mills.  Transaction signatures are the     *)
(* positive integers in order of appearance on chain (1 is the oldest);    *)
(* 0 stands for null / undefined.                                          *)
(***************************************************************************)
EXTENDS Integers, Sequences, FiniteSets, TLC

VARIABLES
    feed,             \* per wallet: the upstream (Helius) transactions, newest first
    wallet_tracking,  \* table wallet_tracking: per wallet, its row if any
    roundup_records,  \* table roundup_records: the rows, in insertion order
    run,              \* per request slot: the request being served and its locals
    observed,         \* per wallet: the newest signature a tracking run has fetched
    probe             \* scratch record of the pure-function specifications

vars == <<feed, wallet_tracking, roundup_records, run, observed, probe>>

----------------------------------------------------------------------------
(* Bounds of the model *)

MaxTx == 4            \* transactions that appear on chain per wallet
HeliusPageSize == 2   \* transactions the upstream API returns per page
MaxUsd == 14          \* whole dollars spanned by the USD values given to calculateRoundup
MaxOverLimit == 3     \* ledger rows of a wallet beyond those getTotalRoundup reads
MaxHalves == 2        \* oldest rows of a long ledger that carry a round-up of 0.50
MaxElapses == 3       \* times the clock is seen to move between and during price lookups

(* Program constants *)

MaxPageRequest == 100          \* Math.min(100, ...) in fetchOutgoingTransactions
DefaultLimit == 100            \* limit = 100 of the routes
TotalFetchLimit == 1000        \* getRoundups(walletAddress, 1000) in getTotalRoundup
LamportsPerSol == 1000000000   \* transfer.amount / 1e9 in parseTransaction
NullSig == 0                   \* last_tracked_tx: null, afterSignature: undefined
cacheDuration == 60 * 1000     \* PriceOracle.cacheDuration, in milliseconds
MinAddressLength == 32         \* address.length < 32 in the wallet-init route
MaxAddressLength == 44         \* address.length > 44 in the wallet-init route

Mill == 10 * 100               \* mills per dollar: the scale of USD values
NullMint == ""                 \* tokenMint: null

Min(a, b) == IF a < b THEN a ELSE b
Max(a, b) == IF a > b THEN a ELSE b

----------------------------------------------------------------------------
(* Arithmetic of the round-up calculator *)

\* Math.ceil on a value in mills: the next multiple of one dollar
Ceil(x) == ((x + Mill - 1) \div Mill) * Mill

\* parseFloat(x.toFixed(2)): the nearest cent, the larger one on a tie
ToFixed2(x) == ((x + 5) \div 10) * 10

calculateRoundup_floorPlusOne(usdValue) ==
    Max(0, ((usdValue \div Mill) + 1) * Mill - usdValue)

calculateRoundup(usdValue) ==
    LET rounded == Ceil(usdValue)
        roundup == rounded - usdValue
    IN  Max(0, roundup)

----------------------------------------------------------------------------
(* Price lookup as the calculator uses it *)

UsdcMainnetMint == "EPjFWdd5AufqSSqeM2qN1xzybapC8G4wEGGkZwyTDt1v"
UsdcDevnetMint == "4zMMC9srt5Ri5X14GAgXhaHii3GnPAEERYPJgZJDncDU"
UsdtMint == "Es9vMFrzaCERmJfrF4H2FYD4KCoNkY11McCe8BenwNYB"
WrappedSolMint == "So11111111111111111111111111111111111111112"
MSolMint == "mSoLzYCxHdYgdzU16g5QSh3i5K3z3KZK7ytfqcJm7So"

CoinIds == {"solana", "usd-coin", "tether", "msol"}

\* PriceOracle.mintToCoinGeckoId: mintMap[tokenMint] || "solana"
mintToCoinGeckoId(tokenMint) ==
    CASE tokenMint = WrappedSolMint -> "solana"
      [] tokenMint = UsdcMainnetMint -> "usd-coin"
      [] tokenMint = UsdcDevnetMint -> "usd-coin"
      [] tokenMint = UsdtMint -> "tether"
      [] tokenMint = MSolMint -> "msol"
      [] OTHER -> "solana"

\* PriceOracle.getCurrentSolPrice and getCurrentTokenPrice, without the cache:
\* cg[id] is what CoinGecko answers for the coin now, in tenths of a dollar,
\* 0 when the request fails or carries no usd price (the catch returns price 0).
getCurrentSolPrice(cg) == cg["solana"]
getCurrentTokenPrice(tokenMint, cg) == cg[mintToCoinGeckoId(tokenMint)]

\* RoundupCalculator.getTokenPrice; 1.0 is 10 tenths of a dollar
getTokenPrice(token, tokenMint, cg) ==
    IF token = "SOL" THEN getCurrentSolPrice(cg)
    ELSE IF token = "USDC" \/ token = "USDT" THEN 10
    ELSE IF tokenMint # NullMint THEN getCurrentTokenPrice(tokenMint, cg)
    ELSE 0

processTransaction_zeroPriceStored(transaction, cg) ==
    LET tokenPrice == getTokenPrice(transaction.token, transaction.tokenMint, cg)
        usdValue == transaction.amount * tokenPrice
        roundUpValue == calculateRoundup(usdValue)
    IN  << [transaction_id |-> transaction.signature,
            transaction_date |-> transaction.timestamp,
            token |-> transaction.token,
            token_mint |-> transaction.tokenMint,
            token_amount |-> transaction.amount,
            usd_value |-> ToFixed2(usdValue),
            round_up_value |-> ToFixed2(roundUpValue)] >>

\* RoundupCalculator.processTransaction: <<>> is null, else <<calculation>>
processTransaction(transaction, cg) ==
    LET tokenPrice == getTokenPrice(transaction.token, transaction.tokenMint, cg)
        usdValue == transaction.amount * tokenPrice
        roundUpValue == calculateRoundup(usdValue)
    IN  IF tokenPrice = 0 THEN <<>>
        ELSE << [transaction_id |-> transaction.signature,
                 transaction_date |-> transaction.timestamp,
                 token |-> transaction.token,
                 token_mint |-> transaction.tokenMint,
                 token_amount |-> transaction.amount,
                 usd_value |-> ToFixed2(usdValue),
                 round_up_value |-> ToFixed2(roundUpValue)] >>

----------------------------------------------------------------------------
(* The round-up ledger: table roundup_records *)

\* The row an insert of a calculation for a wallet writes
RoundupRow(walletAddress, calculation) ==
    [wallet_address |-> walletAddress,
     transaction_id |-> calculation.transaction_id,
     transaction_date |-> calculation.transaction_date,
     token |-> calculation.token,
     token_mint |-> calculation.token_mint,
     token_amount |-> calculation.token_amount,
     usd_value |-> calculation.usd_value,
     round_up_value |-> calculation.round_up_value]

\* The uniqueness constraint of roundup_records on transaction_id: the insert of
\* a second row for a transaction id is refused with Postgres error 23505.
UniqueViolation(records, transaction_id) ==
    \E i \in 1..Len(records) : records[i].transaction_id = transaction_id

\* The error of the insert of a row for transaction_id: insertError when the
\* database fails for another reason ("" when it does not), else 23505 when
\* the constraint is violated, else none
InsertError(records, transaction_id, insertError) ==
    IF insertError # "" THEN insertError
    ELSE IF UniqueViolation(records, transaction_id) THEN "23505"
    ELSE ""

storeRoundup_raiseOnDuplicate(records, walletAddress, calculation, insertError) ==
    LET error == InsertError(records, calculation.transaction_id, insertError)
    IN  IF error # ""
        THEN [records |-> records, stored |-> FALSE, error |-> error]
        ELSE [records |-> Append(records, RoundupRow(walletAddress, calculation)),
              stored |-> TRUE, error |-> ""]

storeRoundup_noDuplicateCheck(records, walletAddress, calculation, insertError) ==
    IF insertError # ""
    THEN [records |-> records, stored |-> FALSE, error |-> insertError]
    ELSE [records |-> Append(records, RoundupRow(walletAddress, calculation)),
          stored |-> TRUE, error |-> ""]

\* RoundupCalculator.storeRoundup on the table `records`: the table afterwards,
\* whether a row came back (stored = FALSE is the null result) and the error
\* thrown, "" when none.  A duplicate-key error gives null, not an error; any
\* other error of the insert is thrown.
storeRoundup(records, walletAddress, calculation, insertError) ==
    LET error == InsertError(records, calculation.transaction_id, insertError)
    IN  IF error = "23505"
        THEN [records |-> records, stored |-> FALSE, error |-> ""]
        ELSE IF error # ""
        THEN [records |-> records, stored |-> FALSE, error |-> error]
        ELSE [records |-> Append(records, RoundupRow(walletAddress, calculation)),
              stored |-> TRUE, error |-> ""]

RowsOf(records, walletAddress) ==
    {i \in 1..Len(records) : records[i].wallet_address = walletAddress}

\* Row i comes before row j in `order by transaction_date desc` (rows of a
\* wallet have distinct dates here; equal dates fall back on insertion order)
MoreRecent(records, i, j) ==
    \/ records[i].transaction_date > records[j].transaction_date
    \/ records[i].transaction_date = records[j].transaction_date /\ i > j

\* The last of the rows at the indices `rows` within lo..hi in that order,
\* 0 when there is none
RECURSIVE LeastRecent(_, _, _, _)
LeastRecent(records, rows, lo, hi) ==
    IF lo > hi THEN 0
    ELSE IF lo = hi THEN (IF lo \in rows THEN lo ELSE 0)
    ELSE LET mid == (lo + hi) \div 2
             a == LeastRecent(records, rows, lo, mid)
             b == LeastRecent(records, rows, mid + 1, hi)
         IN  IF a = 0 THEN b
             ELSE IF b = 0 THEN a
             ELSE IF MoreRecent(records, a, b) THEN b ELSE a

\* The first `limit` of the rows in that order
RECURSIVE FirstRows(_, _, _)
FirstRows(records, rows, limit) ==
    IF Cardinality(rows) <= limit THEN rows
    ELSE FirstRows(records,
                   rows \ {LeastRecent(records, rows, 1, Len(records))}, limit)

\* RoundupCalculator.getRoundups: select * from roundup_records where
\* wallet_address = .. order by transaction_date desc limit ..; the indices
\* of the rows returned
getRoundups(records, walletAddress, limit) ==
    FirstRows(records, RowsOf(records, walletAddress), limit)

\* records.reduce((sum, record) => sum + record.round_up_value, 0) over the
\* rows at the indices `rows`
RECURSIVE SumRoundups(_, _, _, _)
SumRoundups(records, rows, lo, hi) ==
    IF lo > hi THEN 0
    ELSE IF lo = hi
         THEN (IF lo \in rows THEN records[lo].round_up_value ELSE 0)
         ELSE LET mid == (lo + hi) \div 2
              IN  SumRoundups(records, rows, lo, mid)
                  + SumRoundups(records, rows, mid + 1, hi)

\* RoundupCalculator.getTotalRoundup
getTotalRoundup(records, walletAddress) ==
    LET rows == getRoundups(records, walletAddress, TotalFetchLimit)
        total == SumRoundups(records, rows, 1, Len(records))
    IN  ToFixed2(total)

\* RoundupCalculator.isReadyForInvestment: total >= 1.0
isReadyForInvestment(records, walletAddress) ==
    getTotalRoundup(records, walletAddress) >= Mill

----------------------------------------------------------------------------
(* The Helius transaction source *)

\* An upstream transaction: [signature, timestamp, nativeTransfers,
\* tokenTransfers]; the transfers are sequences, as in the API's answer.
\* A native amount is in lamports, a token amount in hundredths of a token.

\* transfer.amount / 1e9, held in hundredths of a SOL
LamportsToSol(lamports) == lamports \div (LamportsPerSol \div 100)

\* HeliusService.parseTransaction: <<>> is null, else <<parsed>>
parseTransaction(tx, walletAddress) ==
    LET hasNative == tx.nativeTransfers # <<>>
        hasToken == tx.tokenTransfers # <<>>
        nt == tx.nativeTransfers[1]
        tt == tx.tokenTransfers[1]
        \* after the native-transfer block
        type1 == IF ~hasNative THEN "unknown"
                 ELSE IF nt.fromUserAccount = walletAddress THEN "sent"
                 ELSE IF nt.toUserAccount = walletAddress THEN "received"
                 ELSE "unknown"
        \* after the token-transfer block
        type2 == IF ~hasToken THEN type1
                 ELSE IF tt.fromUserAccount = walletAddress THEN "sent"
                 ELSE IF tt.toUserAccount = walletAddress THEN "received"
                 ELSE type1
        amount == IF hasToken THEN tt.tokenAmount
                  ELSE IF hasNative THEN LamportsToSol(nt.amount) ELSE 0
        tokenMint == IF hasToken THEN tt.mint ELSE NullMint
        token == IF hasToken /\ (tokenMint = UsdcMainnetMint \/ tokenMint = UsdcDevnetMint)
                 THEN "USDC"
                 ELSE IF hasToken /\ tokenMint = UsdtMint THEN "USDT" ELSE "SOL"
        fromAddress == IF hasToken THEN tt.fromUserAccount
                       ELSE IF hasNative THEN nt.fromUserAccount ELSE ""
        toAddress == IF hasToken THEN tt.toUserAccount
                     ELSE IF hasNative THEN nt.toUserAccount ELSE ""
    IN  IF type2 # "sent" THEN <<>>
        ELSE << [signature |-> tx.signature, timestamp |-> tx.timestamp,
                 type |-> type2, amount |-> amount, token |-> token,
                 tokenMint |-> tokenMint, fromAddress |-> fromAddress,
                 toAddress |-> toAddress] >>

\* The position of the transaction with signature sig in a feed, 0 when absent
RECURSIVE IndexOfSig(_, _, _)
IndexOfSig(txs, sig, i) ==
    IF i > Len(txs) THEN 0
    ELSE IF txs[i].signature = sig THEN i
    ELSE IndexOfSig(txs, sig, i + 1)

\* What the Enhanced Transactions API answers for a wallet whose transactions
\* are txs (newest first): one page of those older than `before`, or the
\* newest page when before is undefined
HeliusPage(txs, before) ==
    LET start == IF before = NullSig THEN 1 ELSE IndexOfSig(txs, before, 1) + 1
        stop == Min(Len(txs), start + HeliusPageSize - 1)
    IN  IF before # NullSig /\ IndexOfSig(txs, before, 1) = 0 THEN <<>>
        ELSE SubSeq(txs, start, stop)

\* HeliusService.fetchTransactions: transactions.slice(0, limit)
fetchTransactions(txs, limit, before) ==
    LET transactions == HeliusPage(txs, before)
    IN  SubSeq(transactions, 1, Min(limit, Len(transactions)))

getMostRecentTransaction_undefinedEntry(txs, sourceFails) ==
    LET transactions == fetchTransactions(txs, 1, NullSig)
    IN  IF sourceFails THEN <<>>
        ELSE IF Len(transactions) > 0 THEN <<transactions[1]>>
        ELSE <<[signature |-> NullSig]>>

\* HeliusService.getMostRecentTransaction: <<>> is null.  When fetchTransactions
\* throws (sourceFails), the catch returns null as well.
getMostRecentTransaction(txs, sourceFails) ==
    LET transactions == fetchTransactions(txs, 1, NullSig)
    IN  IF sourceFails THEN <<>>
        ELSE IF Len(transactions) > 0 THEN <<transactions[1]>> ELSE <<>>

\* The for loop of fetchOutgoingTransactions over one page, from its i-th
\* transaction on: the collected transfers and whether the baseline was met
RECURSIVE ScanPage(_, _, _, _, _, _)
ScanPage(page, i, address, afterSignature, all, foundBaseline) ==
    IF i > Len(page) THEN [all |-> all, foundBaseline |-> foundBaseline]
    ELSE IF afterSignature # NullSig /\ page[i].signature = afterSignature
         THEN [all |-> all, foundBaseline |-> TRUE]
    ELSE LET parsed == parseTransaction(page[i], address)
             keep == ~foundBaseline /\ parsed # <<>> /\ parsed[1].type = "sent"
         IN  ScanPage(page, i + 1, address, afterSignature,
                      IF keep THEN Append(all, parsed[1]) ELSE all, foundBaseline)

FetchLoop_firstPageOnly(txs, address, limit, afterSignature, all, currentBefore) ==
    IF ~(Len(all) < limit) THEN all
    ELSE LET page == fetchTransactions(txs, Min(MaxPageRequest, limit - Len(all)),
                                       currentBefore)
             scan == ScanPage(page, 1, address, afterSignature, all,
                              afterSignature = NullSig)
         IN  IF Len(page) = 0 THEN all ELSE scan.all

\* The while loop of fetchOutgoingTransactions
RECURSIVE FetchLoop(_, _, _, _, _, _)
FetchLoop(txs, address, limit, afterSignature, all, currentBefore) ==
    IF ~(Len(all) < limit) THEN all
    ELSE LET page == fetchTransactions(txs, Min(MaxPageRequest, limit - Len(all)),
                                       currentBefore)
             scan == ScanPage(page, 1, address, afterSignature, all,
                              afterSignature = NullSig)
         IN  IF Len(page) = 0 THEN all
             ELSE IF scan.foundBaseline THEN scan.all
             ELSE FetchLoop(txs, address, limit, afterSignature, scan.all,
                            page[Len(page)].signature)

\* HeliusService.fetchOutgoingTransactions on the wallet's upstream feed txs
fetchOutgoingTransactions(txs, address, limit, afterSignature) ==
    FetchLoop(txs, address, limit, afterSignature, <<>>, NullSig)

----------------------------------------------------------------------------
(* The baseline store: table wallet_tracking *)

NoRow == [exists |-> FALSE, last_tracked_tx |-> NullSig]
Row(sig) == [exists |-> TRUE, last_tracked_tx |-> sig]

\* BaselineTracker.getWalletTracking: the wallet's row, NoRow for null
getWalletTracking(tracking, walletAddress) == tracking[walletAddress]

\* BaselineTracker.updateLastTracked: update .. where wallet_address = ..
updateLastTracked(tracking, walletAddress, transactionSignature) ==
    IF tracking[walletAddress].exists
    THEN [tracking EXCEPT ![walletAddress] = Row(transactionSignature)]
    ELSE tracking

----------------------------------------------------------------------------
(* Requests *)

Wallets == {"W1"}
Runs == {"r1", "r2"}

\* The inputs of the requests: any input when requests are served one at a
\* time; well-formed addresses and the default limit when they overlap
TrackAddresses(overlap) == IF overlap THEN Wallets ELSE Wallets \cup {""}
InitAddresses(overlap) == IF overlap THEN Wallets ELSE Wallets \cup {"", "short"}
Limits(overlap) == IF overlap THEN {DefaultLimit} ELSE {1, DefaultLimit}

\* address.length of the addresses the model sends
AddressLength(address) ==
    CASE address = "" -> 0
      [] address = "short" -> 5
      [] OTHER -> MaxAddressLength

NotInitializedError == "Wallet not initialized. Please call /api/wallet/init first."

NoResponse ==
    [status |-> 0, error |-> "", processed |-> 0, stored |-> 0, skipped |-> 0,
     totalRoundup |-> 0, newBaseline |-> NullSig, isReadyForInvestment |-> "absent",
     isNewWallet |-> "absent", count |-> 0]

IdleRun ==
    [op |-> "idle", pc |-> "idle", address |-> "", limit |-> 0,
     ignoreBaseline |-> FALSE, tracking |-> NoRow, existing |-> NoRow,
     mostRecentTx |-> NullSig, newTransactions |-> <<>>, i |-> 0,
     stored |-> 0, skipped |-> 0, outcomes |-> <<>>, fetched |-> FALSE,
     sourceFailed |-> FALSE, records |-> {}, totalRoundup |-> 0,
     response |-> NoResponse]

Free(r) == run[r].pc \in {"idle", "done"}

\* The request of slot r ends with `response`; its locals are gone.  What is
\* kept besides the answer: the request's route and address, and whether a
\* call of the request to the Helius API failed.
Finish(r, response) ==
    [run EXCEPT ![r] = [IdleRun EXCEPT !.op = run[r].op, !.pc = "done",
                                       !.address = run[r].address,
                                       !.sourceFailed = run[r].sourceFailed,
                                       !.response = response]]

\* Whether a call to the Helius API fails (unreachable, or an answer that is
\* no list of transactions)
SourceFailures(faults) == IF faults THEN {FALSE, TRUE} ELSE {FALSE}

HeliusError == "Helius API error"

BoolText(b) == IF b THEN "true" ELSE "false"

----------------------------------------------------------------------------
(* POST /api/roundups/track *)

hasBaseline_rowOnly(tracking) == tracking.exists

hasBaseline_nullRow(tracking) ==
    tracking.exists /\ tracking.last_tracked_tx = NullSig

\* !(!tracking || !tracking.last_tracked_tx)
hasBaseline(tracking) ==
    tracking.exists /\ tracking.last_tracked_tx # NullSig

\* A request arrives: { address, limit = 100, ignoreBaseline = false }
TrackRequest(r, overlap) ==
    /\ Free(r)
    /\ \E address \in TrackAddresses(overlap), limit \in Limits(overlap),
          ignoreBaseline \in BOOLEAN :
          run' = [run EXCEPT ![r] =
                    [IdleRun EXCEPT !.op = "track", !.pc = "check",
                                    !.address = address, !.limit = limit,
                                    !.ignoreBaseline = ignoreBaseline]]
    /\ UNCHANGED <<feed, wallet_tracking, roundup_records, observed, probe>>

\* Address validation and the baseline check
TrackCheck(r) ==
    /\ run[r].op = "track" /\ run[r].pc = "check"
    /\ LET address == run[r].address
           tracking == getWalletTracking(wallet_tracking, address)
       IN  IF address = ""
           THEN run' = Finish(r, [NoResponse EXCEPT !.status = 400,
                                               !.error = "Invalid wallet address"])
           ELSE IF ~hasBaseline(tracking)
           THEN run' = Finish(r, [NoResponse EXCEPT !.status = 400,
                                               !.error = NotInitializedError])
           ELSE run' = [run EXCEPT ![r].pc = "fetch", ![r].tracking = tracking]
    /\ UNCHANGED <<feed, wallet_tracking, roundup_records, observed, probe>>

\* fetchOutgoingTransactions since the baseline, or with no baseline.  An
\* error of fetchTransactions is rethrown and ends the request in the route's
\* catch with status 500 and the error's message.
TrackFetch(r, faults) ==
    /\ run[r].op = "track" /\ run[r].pc = "fetch"
    /\ \E sourceFails \in SourceFailures(faults) :
        LET address == run[r].address
            baselineSignature == IF run[r].ignoreBaseline THEN NullSig
                                 ELSE run[r].tracking.last_tracked_tx
            newTransactions == fetchOutgoingTransactions(feed[address], address,
                                                         run[r].limit, baselineSignature)
        IN  IF sourceFails
            THEN /\ run' = [Finish(r, [NoResponse EXCEPT !.status = 500,
                                                         !.error = HeliusError])
                             EXCEPT ![r].sourceFailed = TRUE]
                 /\ observed' = observed
            ELSE /\ run' = [run EXCEPT ![r].newTransactions = newTransactions,
                                   ![r].fetched = TRUE, ![r].i = 1,
                                   ![r].pc = IF Len(newTransactions) = 0
                                             THEN "empty" ELSE "process"]
                 /\ observed' = IF Len(newTransactions) = 0 THEN observed
                                ELSE [observed EXCEPT ![address] =
                                        Max(@, newTransactions[1].signature)]
    /\ UNCHANGED <<feed, wallet_tracking, roundup_records, probe>>

\* newTransactions.length === 0: the answer with the current total
TrackEmpty(r) ==
    /\ run[r].op = "track" /\ run[r].pc = "empty"
    /\ run' = Finish(r, [NoResponse EXCEPT !.status = 200,
                      !.totalRoundup = getTotalRoundup(roundup_records, run[r].address),
                      !.newBaseline = run[r].tracking.last_tracked_tx])
    /\ UNCHANGED <<feed, wallet_tracking, roundup_records, observed, probe>>

\* What CoinGecko may answer at the time of a lookup: the SOL price in tenths
\* of a dollar (0: the request failed), the other coins at fixed prices
Quote(sol) ==
    [id \in CoinIds |-> CASE id = "solana" -> sol
                          [] id = "msol" -> (sol * 11) \div 10
                          [] OTHER -> 10]
SolPrices(overlap) == IF overlap THEN {150} ELSE {0, 150, 809}

\* Errors the database may raise on an insert for a reason other than the
\* uniqueness constraint: none, or a lost connection
InsertErrors(faults) == IF faults THEN {"", "08006"} ELSE {""}

\* One iteration of the loop of processAndStoreTransactions: the counters and
\* the table after the transaction is priced and its round-up stored; a
\* thrown error is caught and the transaction counted as skipped
ProcessOne(records, walletAddress, transaction, cg, insertError) ==
    LET calculation == processTransaction(transaction, cg)
        res == storeRoundup(records, walletAddress, calculation[1], insertError)
    IN  IF calculation = <<>>
        THEN [records |-> records, outcome |-> "unpriced"]
        ELSE IF res.error # ""
        THEN [records |-> res.records, outcome |-> "error"]
        ELSE [records |-> res.records,
              outcome |-> IF res.stored THEN "stored" ELSE "duplicate"]

\* One iteration of the loop for the run of slot r, with the price CoinGecko
\* answers or the cache holds
ProcessCurrent(r, overlap, faults) ==
    /\ \E sol \in SolPrices(overlap), insertError \in InsertErrors(faults) :
          LET one == ProcessOne(roundup_records, run[r].address,
                                run[r].newTransactions[run[r].i], Quote(sol),
                                insertError)
              last == run[r].i = Len(run[r].newTransactions)
          IN  /\ roundup_records' = one.records
              /\ run' = [run EXCEPT
                           ![r].stored = IF one.outcome = "stored" THEN @ + 1 ELSE @,
                           ![r].skipped = IF one.outcome = "stored" THEN @ ELSE @ + 1,
                           ![r].outcomes = Append(@, one.outcome),
                           ![r].i = @ + 1,
                           ![r].pc = IF last THEN "advance" ELSE "process"]
    /\ UNCHANGED <<feed, wallet_tracking, observed, probe>>

\* processAndStoreTransactions, one transaction per step
TrackProcess(r, overlap, faults) ==
    /\ run[r].op = "track" /\ run[r].pc = "process"
    /\ ProcessCurrent(r, overlap, faults)

AdvanceTarget_newestStored(r) ==
    LET n == Len(run[r].newTransactions)
        storedAt == {k \in 1..n : run[r].outcomes[k] = "stored"}
    IN  IF storedAt = {} THEN run[r].tracking.last_tracked_tx
        ELSE run[r].newTransactions[CHOOSE k \in storedAt :
                                      \A j \in storedAt : k <= j].signature

AdvanceTarget_oldestFetched(r) ==
    run[r].newTransactions[Len(run[r].newTransactions)].signature

\* const mostRecentTx = newTransactions[0]
AdvanceTarget(r) == run[r].newTransactions[1].signature

\* The error of the update of wallet_tracking: none, or a database failure
UpdateErrors(faults) == IF faults THEN {"", "08006"} ELSE {""}

TrackAdvance_onlyWhenStored(r, faults) ==
    /\ run[r].op = "track" /\ run[r].pc = "advance"
    /\ \E updateError \in UpdateErrors(faults) :
          IF updateError # ""
          THEN /\ wallet_tracking' = wallet_tracking
               /\ run' = Finish(r, [NoResponse EXCEPT !.status = 500,
                                                      !.error = updateError])
          ELSE /\ wallet_tracking' = IF run[r].stored = 0 THEN wallet_tracking
                                     ELSE updateLastTracked(wallet_tracking,
                                              run[r].address, AdvanceTarget(r))
               /\ run' = [run EXCEPT ![r].pc = "report"]
    /\ UNCHANGED <<feed, roundup_records, observed, probe>>

\* updateLastTracked(address, mostRecentTx.signature); its error is rethrown
\* and ends the request in the route's catch with status 500
TrackAdvance(r, faults) ==
    /\ run[r].op = "track" /\ run[r].pc = "advance"
    /\ \E updateError \in UpdateErrors(faults) :
          IF updateError # ""
          THEN /\ wallet_tracking' = wallet_tracking
               /\ run' = Finish(r, [NoResponse EXCEPT !.status = 500,
                                                      !.error = updateError])
          ELSE /\ wallet_tracking' = updateLastTracked(wallet_tracking,
                                           run[r].address, AdvanceTarget(r))
               /\ run' = [run EXCEPT ![r].pc = "report"]
    /\ UNCHANGED <<feed, roundup_records, observed, probe>>

\* The answer of a run that processed transactions
TrackReport(r) ==
    /\ run[r].op = "track" /\ run[r].pc = "report"
    /\ LET totalRoundup == getTotalRoundup(roundup_records, run[r].address)
       IN  run' = Finish(r, [NoResponse EXCEPT !.status = 200,
                         !.processed = Len(run[r].newTransactions),
                         !.stored = run[r].stored,
                         !.skipped = run[r].skipped,
                         !.totalRoundup = totalRoundup,
                         !.newBaseline = run[r].newTransactions[1].signature,
                         !.isReadyForInvestment = BoolText(totalRoundup >= Mill)])
    /\ UNCHANGED <<feed, wallet_tracking, roundup_records, observed, probe>>

----------------------------------------------------------------------------
(* POST /api/wallet/init *)

\* wallet_tracking is keyed by the wallet address: the insert of a second row
\* for an address is refused with Postgres error 23505.
WalletKeyViolation(tracking, walletAddress) == tracking[walletAddress].exists

setBaselineWrite_deleteOnConflict(tracking, existing, walletAddress, transactionSignature) ==
    IF existing.exists
    THEN IF tracking[walletAddress].exists
         THEN [tracking |-> [tracking EXCEPT ![walletAddress] = Row(transactionSignature)],
               error |-> ""]
         ELSE [tracking |-> tracking, error |-> "PGRST116"]
    ELSE IF WalletKeyViolation(tracking, walletAddress)
         THEN [tracking |-> [tracking EXCEPT ![walletAddress] = NoRow],
               error |-> "23505"]
         ELSE [tracking |-> [tracking EXCEPT ![walletAddress] = Row(transactionSignature)],
               error |-> ""]

\* BaselineTracker.setBaseline, after its getWalletTracking returned
\* `existing`: the update of the row, or the insert of a new one.  An update
\* that finds no row and an insert that finds one end in an error.
setBaselineWrite(tracking, existing, walletAddress, transactionSignature) ==
    IF existing.exists
    THEN IF tracking[walletAddress].exists
         THEN [tracking |-> [tracking EXCEPT ![walletAddress] = Row(transactionSignature)],
               error |-> ""]
         ELSE [tracking |-> tracking, error |-> "PGRST116"]
    ELSE IF WalletKeyViolation(tracking, walletAddress)
         THEN [tracking |-> tracking, error |-> "23505"]
         ELSE [tracking |-> [tracking EXCEPT ![walletAddress] = Row(transactionSignature)],
               error |-> ""]

InitRequest(r, overlap) ==
    /\ Free(r)
    /\ \E address \in InitAddresses(overlap) :
          run' = [run EXCEPT ![r] =
                    [IdleRun EXCEPT !.op = "init", !.pc = "check", !.address = address]]
    /\ UNCHANGED <<feed, wallet_tracking, roundup_records, observed, probe>>

\* Address validation, then the wallet's row: already initialized?
InitCheck(r) ==
    /\ run[r].op = "init" /\ run[r].pc = "check"
    /\ LET address == run[r].address
           existingTracking == getWalletTracking(wallet_tracking, address)
       IN  IF address = ""
           THEN run' = Finish(r, [NoResponse EXCEPT !.status = 400,
                                               !.error = "Invalid wallet address"])
           ELSE IF AddressLength(address) < MinAddressLength
                   \/ AddressLength(address) > MaxAddressLength
           THEN run' = Finish(r, [NoResponse EXCEPT !.status = 400,
                                               !.error = "Invalid wallet address format"])
           ELSE IF hasBaseline(existingTracking)
           THEN run' = Finish(r, [NoResponse EXCEPT !.status = 200,
                                 !.newBaseline = existingTracking.last_tracked_tx,
                                 !.isNewWallet = "false"])
           ELSE run' = [run EXCEPT ![r].pc = "recent", ![r].tracking = existingTracking]
    /\ UNCHANGED <<feed, wallet_tracking, roundup_records, observed, probe>>

\* getMostRecentTransaction, and the 404 when there is none
InitRecent(r, faults) ==
    /\ run[r].op = "init" /\ run[r].pc = "recent"
    /\ \E sourceFails \in SourceFailures(faults) :
        LET mostRecentTx == getMostRecentTransaction(feed[run[r].address], sourceFails)
        IN  IF mostRecentTx = <<>>
            THEN run' = [Finish(r, [NoResponse EXCEPT !.status = 404,
                                  !.error = "No transactions found for this wallet"])
                         EXCEPT ![r].sourceFailed = sourceFails]
            ELSE run' = [run EXCEPT ![r].pc = "setBaseline",
                             ![r].mostRecentTx = mostRecentTx[1].signature]
    /\ UNCHANGED <<feed, wallet_tracking, roundup_records, observed, probe>>

\* setBaseline: const existing = await this.getWalletTracking(walletAddress)
InitSetBaselineRead(r) ==
    /\ run[r].op = "init" /\ run[r].pc = "setBaseline"
    /\ run' = [run EXCEPT ![r].pc = "write",
                  ![r].existing = getWalletTracking(wallet_tracking, run[r].address)]
    /\ UNCHANGED <<feed, wallet_tracking, roundup_records, observed, probe>>

\* setBaseline: the update or the insert, and the route's answer
InitSetBaselineWrite(r) ==
    /\ run[r].op = "init" /\ run[r].pc = "write"
    /\ LET res == setBaselineWrite(wallet_tracking, run[r].existing, run[r].address,
                                   run[r].mostRecentTx)
       IN  /\ wallet_tracking' = res.tracking
           /\ run' = Finish(r, IF res.error # ""
                    THEN [NoResponse EXCEPT !.status = 500, !.error = res.error]
                    ELSE [NoResponse EXCEPT !.status = 200,
                             !.newBaseline = run[r].mostRecentTx,
                             !.isNewWallet = BoolText(~run[r].tracking.exists)])
    /\ UNCHANGED <<feed, roundup_records, observed, probe>>

----------------------------------------------------------------------------
(* GET /api/roundups/track *)

MissingAddressError == "Missing wallet address"

\* A request arrives: ?address=..&limit=.. with limit 100 when left out
GetRequest(r) ==
    /\ Free(r)
    /\ \E address \in TrackAddresses(FALSE), limit \in Limits(FALSE) :
          run' = [run EXCEPT ![r] =
                    [IdleRun EXCEPT !.op = "get", !.pc = "check",
                                    !.address = address, !.limit = limit]]
    /\ UNCHANGED <<feed, wallet_tracking, roundup_records, observed, probe>>

\* if (!address)
GetCheck(r) ==
    /\ run[r].op = "get" /\ run[r].pc = "check"
    /\ IF run[r].address = ""
       THEN run' = Finish(r, [NoResponse EXCEPT !.status = 400,
                                               !.error = MissingAddressError])
       ELSE run' = [run EXCEPT ![r].pc = "records"]
    /\ UNCHANGED <<feed, wallet_tracking, roundup_records, observed, probe>>

GetRecords_initializedOnly(r) ==
    /\ run[r].op = "get" /\ run[r].pc = "records"
    /\ IF ~hasBaseline(getWalletTracking(wallet_tracking, run[r].address))
       THEN run' = Finish(r, [NoResponse EXCEPT !.status = 400,
                                               !.error = NotInitializedError])
       ELSE run' = [run EXCEPT ![r].pc = "total",
                       ![r].records = getRoundups(roundup_records, run[r].address,
                                                  run[r].limit)]
    /\ UNCHANGED <<feed, wallet_tracking, roundup_records, observed, probe>>

\* const records = await roundupCalculator.getRoundups(address, limit)
GetRecords(r) ==
    /\ run[r].op = "get" /\ run[r].pc = "records"
    /\ run' = [run EXCEPT ![r].pc = "total",
                  ![r].records = getRoundups(roundup_records, run[r].address,
                                             run[r].limit)]
    /\ UNCHANGED <<feed, wallet_tracking, roundup_records, observed, probe>>

\* const totalRoundup = await roundupCalculator.getTotalRoundup(address)
GetTotal(r) ==
    /\ run[r].op = "get" /\ run[r].pc = "total"
    /\ run' = [run EXCEPT ![r].pc = "ready",
                  ![r].totalRoundup = getTotalRoundup(roundup_records, run[r].address)]
    /\ UNCHANGED <<feed, wallet_tracking, roundup_records, observed, probe>>

\* const isReady = await roundupCalculator.isReadyForInvestment(address), and
\* the answer { records, totalRoundup, count: records.length, isReadyForInvestment }
GetReady(r) ==
    /\ run[r].op = "get" /\ run[r].pc = "ready"
    /\ run' = Finish(r, [NoResponse EXCEPT !.status = 200,
                      !.count = Cardinality(run[r].records),
                      !.totalRoundup = run[r].totalRoundup,
                      !.isReadyForInvestment =
                          BoolText(isReadyForInvestment(roundup_records, run[r].address))])
    /\ UNCHANGED <<feed, wallet_tracking, roundup_records, observed, probe>>

\* A request slot serving a request for the recorded round-ups
GetStep(r) ==
    \/ GetRequest(r)
    \/ GetCheck(r)
    \/ GetRecords(r)
    \/ GetTotal(r)
    \/ GetReady(r)

----------------------------------------------------------------------------
(* The chain: transactions of a wallet appear upstream *)

Other == "X"

NativeTransfer(from, to, lamports) ==
    [fromUserAccount |-> from, toUserAccount |-> to, amount |-> lamports]
TokenTransfer(from, to, tokenAmount, mint) ==
    [fromUserAccount |-> from, toUserAccount |-> to, tokenAmount |-> tokenAmount,
     mint |-> mint]

\* The transactions the model lets appear for a wallet: it sends 0.89 SOL,
\* it receives 0.5 SOL, it sends 8.85 USDC
SendsSol(w) ==
    [nativeTransfers |-> <<NativeTransfer(w, Other, 890000000)>>,
     tokenTransfers |-> <<>>]
ReceivesSol(w) ==
    [nativeTransfers |-> <<NativeTransfer(Other, w, 500000000)>>,
     tokenTransfers |-> <<>>]
SendsUsdc(w, tokenAmount) ==
    [nativeTransfers |-> <<>>,
     tokenTransfers |-> <<TokenTransfer(w, Other, tokenAmount, UsdcMainnetMint)>>]
TxShapes(w, overlap) ==
    IF overlap THEN {SendsSol(w), ReceivesSol(w)}
    ELSE {SendsSol(w), ReceivesSol(w), SendsUsdc(w, 885)}

\* The transaction of a shape with signature sig, and block time sig
Transaction(sig, shape) ==
    [signature |-> sig, timestamp |-> sig,
     nativeTransfers |-> shape.nativeTransfers,
     tokenTransfers |-> shape.tokenTransfers]

NewTransaction(w, overlap) ==
    /\ Len(feed[w]) < MaxTx
    /\ \E shape \in TxShapes(w, overlap) :
          feed' = [feed EXCEPT ![w] =
                     <<Transaction(Len(feed[w]) + 1, shape)>> \o @]
    /\ UNCHANGED <<wallet_tracking, roundup_records, run, observed, probe>>

----------------------------------------------------------------------------
(* The system *)

NoProbe == [op |-> "none", x |-> 0, result |-> 0]

\* No request is being served, nothing is recorded; a wallet has no row, or a
\* row that holds no baseline yet
Init ==
    /\ feed = [w \in Wallets |-> <<>>]
    /\ wallet_tracking \in [Wallets -> {NoRow, Row(NullSig)}]
    /\ roundup_records = <<>>
    /\ run = [r \in Runs |-> IdleRun]
    /\ observed = [w \in Wallets |-> NullSig]
    /\ probe = NoProbe

\* A request slot serving a request
Step(r, overlap, faults) ==
    \/ TrackRequest(r, overlap)
    \/ TrackCheck(r)
    \/ TrackFetch(r, faults)
    \/ TrackEmpty(r)
    \/ TrackProcess(r, overlap, faults)
    \/ TrackAdvance(r, faults)
    \/ TrackReport(r)
    \/ InitRequest(r, overlap)
    \/ InitCheck(r)
    \/ InitRecent(r, faults)
    \/ InitSetBaselineRead(r)
    \/ InitSetBaselineWrite(r)

\* Requests served one at a time, by slot r1
Next ==
    \/ \E w \in Wallets : NewTransaction(w, FALSE)
    \/ Step("r1", FALSE, FALSE)

Spec == Init /\ [][Next]_vars

\* Two slots serve overlapping requests for well-formed addresses, with the
\* default limit, while CoinGecko answers
RaceNext ==
    \/ \E w \in Wallets : NewTransaction(w, TRUE)
    \/ \E r \in Runs : Step(r, TRUE, FALSE)

SpecRace == Init /\ [][RaceNext]_vars

\* Requests served one at a time while the Helius API and the database may fail
FaultNext ==
    \/ \E w \in Wallets : NewTransaction(w, FALSE)
    \/ Step("r1", FALSE, TRUE)

SpecFaults == Init /\ [][FaultNext]_vars

\* The price request in flight. getCurrentSolPrice, on a cache miss, awaits
\* fetchFromCoinGecko, which awaits fetch(url); nothing else resumes the run.
\* probe.op = "coingecko" with x = 1: CoinGecko accepts requests and sends no
\* response to them.
Silent == [op |-> "coingecko", x |-> 1, result |-> 0]

CoinGeckoStopsResponding ==
    /\ probe = NoProbe
    /\ probe' = Silent
    /\ UNCHANGED <<feed, wallet_tracking, roundup_records, run, observed>>

\* const response = await fetch(url): the request is sent
TrackLookupStarts(r) ==
    /\ run[r].op = "track" /\ run[r].pc = "process"
    /\ run[r].newTransactions[run[r].i].token = "SOL"
    /\ run' = [run EXCEPT ![r].pc = "lookup"]
    /\ UNCHANGED <<feed, wallet_tracking, roundup_records, observed, probe>>

\* The response arrives, or the request fails: the awaiting run resumes and
\* the iteration goes on with the price (0 on a failure)
TrackLookupAnswers(r) ==
    /\ run[r].op = "track" /\ run[r].pc = "lookup"
    /\ probe # Silent
    /\ ProcessCurrent(r, FALSE, FALSE)

\* A request slot serving a request, the price requests shown
LookupStep(r) ==
    \/ Step(r, FALSE, FALSE)
    \/ TrackLookupStarts(r)
    \/ TrackLookupAnswers(r)

\* Requests served one at a time while CoinGecko may stop responding
LookupNext ==
    \/ \E w \in Wallets : NewTransaction(w, TRUE)
    \/ CoinGeckoStopsResponding
    \/ LookupStep("r1")

SpecLookup == Init /\ [][LookupNext]_vars

\* Requests served one at a time while the update of the baseline may fail
RetryNext ==
    \/ \E w \in Wallets : NewTransaction(w, TRUE)
    \/ Step("r1", TRUE, FALSE)
    \/ TrackAdvance("r1", TRUE)

SpecRetry == Init /\ [][RetryNext]_vars

\* Further transactions a wallet's address can appear in: the wallet moves
\* 0.89 SOL to itself; the wallet pays 0.89 SOL in a transaction whose first
\* token transfer is 8.85 USDC between two other accounts
Third == "Y"
SendsSolToItself(w) ==
    [nativeTransfers |-> <<NativeTransfer(w, w, 890000000)>>,
     tokenTransfers |-> <<>>]
SendsSolBesideOthersUsdc(w) ==
    [nativeTransfers |-> <<NativeTransfer(w, Other, 890000000)>>,
     tokenTransfers |-> <<TokenTransfer(Other, Third, 885, UsdcMainnetMint)>>]
MixedShapes(w) ==
    {SendsSol(w), ReceivesSol(w), SendsSolToItself(w), SendsSolBesideOthersUsdc(w)}

NewMixedTransaction(w) ==
    /\ Len(feed[w]) < MaxTx
    /\ \E shape \in MixedShapes(w) :
          feed' = [feed EXCEPT ![w] =
                     <<Transaction(Len(feed[w]) + 1, shape)>> \o @]
    /\ UNCHANGED <<wallet_tracking, roundup_records, run, observed, probe>>

\* A token the code has no symbol and no CoinGecko id for: the wallet sends
\* 1000 BONK
BonkMint == "DezXAZ8z7PnrnRJjz3wXBoRgixCa6xjnB7YaB1pPB263"
SendsBonk(w) ==
    [nativeTransfers |-> <<>>,
     tokenTransfers |-> <<TokenTransfer(w, Other, 100000, BonkMint)>>]

NewTokenTransaction(w) ==
    /\ Len(feed[w]) < MaxTx
    /\ feed' = [feed EXCEPT ![w] =
                  <<Transaction(Len(feed[w]) + 1, SendsBonk(w))>> \o @]
    /\ UNCHANGED <<wallet_tracking, roundup_records, run, observed, probe>>

\* Requests served one at a time for a wallet with transactions of these shapes
SourceNext ==
    \/ \E w \in Wallets : NewMixedTransaction(w)
    \/ \E w \in Wallets : NewTokenTransaction(w)
    \/ Step("r1", TRUE, FALSE)

SpecSource == Init /\ [][SourceNext]_vars

\* Slot r2 serves requests for the recorded round-ups while slot r1 serves
\* initialization and tracking requests
ReadNext ==
    \/ \E w \in Wallets : NewTransaction(w, TRUE)
    \/ Step("r1", TRUE, FALSE)
    \/ GetStep("r2")

SpecRead == Init /\ [][ReadNext]_vars

\* Two slots serve overlapping requests of all three routes; the Helius API
\* and the database may fail for the requests of slot r1
MixNext ==
    \/ \E w \in Wallets : NewTransaction(w, TRUE)
    \/ Step("r1", TRUE, TRUE)
    \/ Step("r2", TRUE, FALSE)
    \/ GetStep("r2")

SpecMix == Init /\ [][MixNext]_vars

----------------------------------------------------------------------------
(* fetchOutgoingTransactions on its own *)

\* The feeds of at most MaxTx transactions of wallet w, newest first, the
\* n-th transaction of the chain having signature n
RECURSIVE Feeds(_, _)
Feeds(w, n) ==
    IF n = 0 THEN {<<>>}
    ELSE LET shorter == Feeds(w, n - 1)
         IN  shorter \cup
             {<<Transaction(Len(f) + 1, shape)>> \o f :
                 f \in {g \in shorter : Len(g) = n - 1},
                 shape \in TxShapes(w, FALSE) \cup MixedShapes(w)}

\* The limits of a fetch: below, at and above the page size, and the default
FetchLimits == (1..MaxTx) \cup {DefaultLimit}

\* fetchOutgoingTransactions(address, limit, afterSignature) is about to be
\* called for a wallet with some feed; afterSignature is a transaction of
\* the feed, or a stale one when the feed is empty
FetchInit ==
    /\ feed \in [Wallets -> Feeds("W1", MaxTx)]
    /\ wallet_tracking = [w \in Wallets |-> NoRow]
    /\ roundup_records = <<>>
    /\ run = [r \in Runs |-> IdleRun]
    /\ observed = [w \in Wallets |-> NullSig]
    /\ \E limit \in FetchLimits, afterSignature \in 1..Max(1, Len(feed["W1"])) :
          probe = [op |-> "input", limit |-> limit,
                   afterSignature |-> afterSignature, result |-> <<>>]

FetchOutgoingTransactions ==
    /\ probe.op = "input"
    /\ probe' = [probe EXCEPT !.op = "fetchOutgoingTransactions",
                     !.result = fetchOutgoingTransactions(feed["W1"], "W1",
                                    probe.limit, probe.afterSignature)]
    /\ UNCHANGED <<feed, wallet_tracking, roundup_records, run, observed>>

SpecFetch == FetchInit /\ [][FetchOutgoingTransactions]_vars

----------------------------------------------------------------------------
(* PriceOracle with its cache: priceCache, and the clock Date.now() reads *)

TokenCacheKey == "mSoLzYCxHdYgdzU16g5QSh3i5K3z3KZK7ytfqcJm7So_current"
CacheKeys == {"sol_current", TokenCacheKey}

\* PriceOracle.getCachedPrice at time now: the value returned (<<>> is null)
\* and the cache it leaves, an expired entry being deleted
getCachedPrice(priceCache, key, now) ==
    LET cached == priceCache[key]
    IN  IF cached = <<>> THEN [value |-> <<>>, priceCache |-> priceCache]
        ELSE IF now - cached[1].timestamp > cacheDuration
        THEN [value |-> <<>>, priceCache |-> [priceCache EXCEPT ![key] = <<>>]]
        ELSE [value |-> <<[cached[1] EXCEPT !.source = "cached"]>>,
              priceCache |-> priceCache]

\* PriceOracle.cachePrice
cachePrice(priceCache, key, data) == [priceCache EXCEPT ![key] = <<data>>]

NoCall ==
    [key |-> "", at |-> 0, seen |-> <<>>, queried |-> FALSE,
     result |-> [price |-> 0, timestamp |-> 0, source |-> ""]]

\* A new PriceOracle: an empty cache; no lookup was made yet
OracleInit ==
    /\ feed = [w \in Wallets |-> <<>>]
    /\ wallet_tracking = [w \in Wallets |-> NoRow]
    /\ roundup_records = <<>>
    /\ run = [r \in Runs |-> IdleRun]
    /\ observed = [w \in Wallets |-> NullSig]
    /\ probe = [op |-> "oracle", now |-> 0, elapses |-> 0,
                priceCache |-> [k \in CacheKeys |-> <<>>], call |-> NoCall]

\* Time passes between two lookups: a millisecond, a millisecond less than
\* the cache duration, or the cache duration
Delays == {1, cacheDuration - 1, cacheDuration}
Elapse ==
    /\ probe.op = "oracle"
    /\ probe.elapses < MaxElapses
    /\ \E d \in Delays :
          probe' = [probe EXCEPT !.now = @ + d, !.elapses = @ + 1]
    /\ UNCHANGED <<feed, wallet_tracking, roundup_records, run, observed>>

\* The body shared by getCurrentSolPrice and getCurrentTokenPrice: the cached
\* value if getCachedPrice returns one; else the price CoinGecko answers for
\* the coin, cached and returned with the time of the answer, or price 0,
\* not cached, when the request fails. call records the lookup: its key, the
\* time it was made at, the entry the cache held, whether CoinGecko was
\* queried, and the PriceData returned.
CurrentPrice(key, coinId) ==
    /\ probe.op = "oracle"
    /\ \E sol \in {0, 150}, took \in {0, 1} :
          LET got == getCachedPrice(probe.priceCache, key, probe.now)
              price == Quote(sol)[coinId]
              priceData == [price |-> price, timestamp |-> probe.now + took,
                            source |-> "jupiter"]
              call == [key |-> key, at |-> probe.now, seen |-> probe.priceCache[key],
                       queried |-> got.value = <<>>,
                       result |-> IF got.value # <<>> THEN got.value[1] ELSE priceData]
          IN  IF got.value # <<>>
              THEN probe' = [probe EXCEPT !.call = call]
              ELSE /\ took = 1 => probe.elapses < MaxElapses
                   /\ probe' = [probe EXCEPT
                                  !.now = @ + took,
                                  !.elapses = @ + took,
                                  !.priceCache = IF price = 0 THEN got.priceCache
                                                 ELSE cachePrice(got.priceCache, key, priceData),
                                  !.call = call]
    /\ UNCHANGED <<feed, wallet_tracking, roundup_records, run, observed>>

GetCurrentSolPrice == CurrentPrice("sol_current", "solana")
GetCurrentTokenPrice == CurrentPrice(TokenCacheKey, mintToCoinGeckoId(MSolMint))

OracleNext ==
    \/ Elapse
    \/ GetCurrentSolPrice
    \/ GetCurrentTokenPrice

SpecOracle == OracleInit /\ [][OracleNext]_vars

----------------------------------------------------------------------------
(* Two wallets *)

\* Slot r1 serves the requests for wallet W1, slot r2 those for wallet W2
TwoWallets == {"W1", "W2"}
WalletOf(r) == IF r = "r1" THEN "W1" ELSE "W2"

\* The newest signature on the chain, 0 when there is no transaction
RECURSIVE NewestSignature(_)
NewestSignature(wallets) ==
    IF wallets = {} THEN NullSig
    ELSE LET w == CHOOSE v \in wallets : TRUE
             newest == IF feed[w] = <<>> THEN NullSig ELSE feed[w][1].signature
         IN  Max(newest, NewestSignature(wallets \ {w}))

\* One transaction in which W1 pays 0.89 SOL and W2 sends 8.85 USDC
JointTransfer ==
    [nativeTransfers |-> <<NativeTransfer("W1", Other, 890000000)>>,
     tokenTransfers |-> <<TokenTransfer("W2", Other, 885, UsdcMainnetMint)>>]

\* A transaction of wallet w alone appears
NewOwnTransaction(w) ==
    /\ NewestSignature(TwoWallets) < MaxTx
    /\ feed' = [feed EXCEPT ![w] =
                  <<Transaction(NewestSignature(TwoWallets) + 1, SendsSol(w))>> \o @]
    /\ UNCHANGED <<wallet_tracking, roundup_records, run, observed, probe>>

\* A transaction of both wallets appears: the API lists it for either address
NewJointTransaction ==
    /\ NewestSignature(TwoWallets) < MaxTx
    /\ feed' = [w \in TwoWallets |->
                  <<Transaction(NewestSignature(TwoWallets) + 1, JointTransfer)>>
                  \o feed[w]]
    /\ UNCHANGED <<wallet_tracking, roundup_records, run, observed, probe>>

\* Requests for wallet w with the default limit
TrackRequestFor(r, w) ==
    /\ Free(r)
    /\ run' = [run EXCEPT ![r] =
                  [IdleRun EXCEPT !.op = "track", !.pc = "check",
                                  !.address = w, !.limit = DefaultLimit]]
    /\ UNCHANGED <<feed, wallet_tracking, roundup_records, observed, probe>>

InitRequestFor(r, w) ==
    /\ Free(r)
    /\ run' = [run EXCEPT ![r] =
                  [IdleRun EXCEPT !.op = "init", !.pc = "check", !.address = w]]
    /\ UNCHANGED <<feed, wallet_tracking, roundup_records, observed, probe>>

WalletsInit ==
    /\ feed = [w \in TwoWallets |-> <<>>]
    /\ wallet_tracking = [w \in TwoWallets |-> NoRow]
    /\ roundup_records = <<>>
    /\ run = [r \in Runs |-> IdleRun]
    /\ observed = [w \in TwoWallets |-> NullSig]
    /\ probe = NoProbe

\* A request slot serving the requests for its wallet
WalletStep(r) ==
    \/ TrackRequestFor(r, WalletOf(r))
    \/ TrackCheck(r)
    \/ TrackFetch(r, FALSE)
    \/ TrackEmpty(r)
    \/ TrackProcess(r, TRUE, FALSE)
    \/ TrackAdvance(r, FALSE)
    \/ TrackReport(r)
    \/ InitRequestFor(r, WalletOf(r))
    \/ InitCheck(r)
    \/ InitRecent(r, FALSE)
    \/ InitSetBaselineRead(r)
    \/ InitSetBaselineWrite(r)

WalletsNext ==
    \/ \E w \in TwoWallets : NewOwnTransaction(w)
    \/ NewJointTransaction
    \/ \E r \in Runs : WalletStep(r)

SpecWallets == WalletsInit /\ [][WalletsNext]_vars

----------------------------------------------------------------------------
(* calculateRoundup on its own *)

\* A USD value of 0 .. MaxUsd dollars is about to be given to calculateRoundup
ProbeInit ==
    /\ feed = [w \in Wallets |-> <<>>]
    /\ wallet_tracking = [w \in Wallets |-> NoRow]
    /\ roundup_records = <<>>
    /\ run = [r \in Runs |-> IdleRun]
    /\ observed = [w \in Wallets |-> NullSig]
    /\ \E usdValue \in 0..(MaxUsd * Mill) :
          probe = [op |-> "input", x |-> usdValue, result |-> 0]

\* calculateRoundup(usdValue)
CalculateRoundup ==
    /\ probe.op = "input"
    /\ probe' = [probe EXCEPT !.op = "calculateRoundup",
                              !.result = calculateRoundup(probe.x)]
    /\ UNCHANGED <<feed, wallet_tracking, roundup_records, run, observed>>

SpecProbe == ProbeInit /\ [][CalculateRoundup]_vars

----------------------------------------------------------------------------
(* The ledger of a wallet that has sent many transfers *)

\* USDC amounts sent, in hundredths: 0.50, 1.00 and 8.85 USDC have the
\* round-ups 0.50, 0.00 and 0.15
LedgerAmounts == {50, 100, 885}

\* The table after the wallet's USDC transfer `sig` of tokenAmount is put
\* through processAndStoreTransactions while USDC is priced at 1.0
Recorded(records, w, sig, tokenAmount) ==
    ProcessOne(records, w,
               parseTransaction(Transaction(sig, SendsUsdc(w, tokenAmount)), w)[1],
               Quote(150), "").records

\* The table after wallet w's first n transfers were recorded one by one: the
\* oldest `halves` of them sent 0.50 USDC, the later ones 1.00 USDC
Ledger(w, n, halves) ==
    [sig \in 1..n |->
        Recorded(<<>>, w, sig, IF sig <= halves THEN 50 ELSE 100)[1]]

\* The wallet has as many entries as getTotalRoundup reads, or one less
LedgerInit ==
    /\ \E n \in {TotalFetchLimit - 1, TotalFetchLimit}, halves \in 0..MaxHalves :
          /\ roundup_records = Ledger("W1", n, halves)
          /\ wallet_tracking = [w \in Wallets |-> Row(n)]
    /\ feed = [w \in Wallets |-> <<>>]
    /\ run = [r \in Runs |-> IdleRun]
    /\ observed = [w \in Wallets |-> NullSig]
    /\ probe = NoProbe

\* The wallet's next transfer is recorded
LedgerRecord ==
    /\ Len(roundup_records) < TotalFetchLimit + MaxOverLimit
    /\ \E tokenAmount \in LedgerAmounts :
          roundup_records' = Recorded(roundup_records, "W1",
                                      Len(roundup_records) + 1, tokenAmount)
    /\ UNCHANGED <<feed, wallet_tracking, run, observed, probe>>

SpecLedger == LedgerInit /\ [][LedgerRecord]_vars

----------------------------------------------------------------------------
(* What the claims speak of *)

Baseline(w) == wallet_tracking[w].last_tracked_tx

\* No tracking record, or a record whose last-tracked transfer id is null
NoBaseline(w) == ~wallet_tracking[w].exists \/ Baseline(w) = NullSig

\* Slot r takes the step
Acts(r) == run'[r] # run[r]

TrackAt(r, pc) == run[r].op = "track" /\ run[r].pc = pc

Count(outcomes, what) ==
    Cardinality({k \in 1..Len(outcomes) : outcomes[k] = what})

EntriesOf(transaction_id) ==
    {i \in 1..Len(roundup_records) :
        roundup_records[i].transaction_id = transaction_id}

\* The transfer a run in the loop is about to process
Current(r) == run[r].newTransactions[run[r].i]

----------------------------------------------------------------------------
\* C1: TrackRoundups on a wallet with no baseline (no row, or a row whose
\* last_tracked_tx is null) ends at the check with the not-initialized error,
\* in either mode, without reaching the fetch and without a write: the
\* baseline store and the ledger are as before.
C1_UninitializedRejected ==
    [][\A r \in Runs :
         (TrackAt(r, "check") /\ Acts(r) /\ run[r].address \in Wallets
          /\ NoBaseline(run[r].address))
         => /\ run'[r].pc = "done"
            /\ run'[r].response.status = 400
            /\ run'[r].response.error = NotInitializedError
            /\ ~run'[r].fetched
            /\ UNCHANGED <<wallet_tracking, roundup_records, observed>>]_vars

\* A reprocess-or-not run was rejected for a wallet whose row holds a null
\* baseline although the wallet has transactions upstream
C1_Witness ==
    \E r \in Runs :
        /\ run[r].op = "track" /\ run[r].pc = "done"
        /\ run[r].response.error = NotInitializedError
        /\ wallet_tracking[run[r].address] = Row(NullSig)
        /\ Len(feed[run[r].address]) > 0

\* C2: storing a round-up for a transfer id that already has an entry leaves
\* the table as it is, with exactly one entry for the id, comes back with
\* null and no error (the transfer counts as a duplicate skip), and the
\* wallet's total is what it was.
C2_RecordIdempotent ==
    [][\A r \in Runs :
         (TrackAt(r, "process") /\ Acts(r)
          /\ EntriesOf(Current(r).signature) # {})
         => /\ roundup_records' = roundup_records
            /\ Cardinality(EntriesOf(Current(r).signature)) = 1
            /\ run'[r].outcomes = Append(run[r].outcomes, "duplicate")
            /\ run'[r].stored = run[r].stored
            /\ getTotalRoundup(roundup_records', run[r].address)
                 = getTotalRoundup(roundup_records, run[r].address)]_vars

\* A run was handed null for a transfer another run had recorded
C2_Witness ==
    \E r \in Runs :
        /\ run[r].op = "track" /\ run[r].outcomes # <<>>
        /\ run[r].outcomes[Len(run[r].outcomes)] = "duplicate"
        /\ Cardinality(EntriesOf(
              run[r].newTransactions[Len(run[r].outcomes)].signature)) = 1

\* C3: whatever the interleaving of overlapping runs, the ledger holds at
\* most one entry per transfer id, and only entries of transfers the wallet
\* sent, so a total counts a transfer's round-up at most once.
C3_OneEntryPerTransfer ==
    /\ \A i, j \in 1..Len(roundup_records) :
          roundup_records[i].transaction_id = roundup_records[j].transaction_id
          => i = j
    /\ \A w \in Wallets :
          Cardinality(RowsOf(roundup_records, w)) <= Len(feed[w])

\* Two runs hold the same fetched transfer, one of them has met the other's
\* entry, and the entry is there once
C3_Witness ==
    \E r, q \in Runs :
        /\ r # q
        /\ run[r].op = "track" /\ run[q].op = "track"
        /\ run[q].newTransactions # <<>>
        /\ run[r].newTransactions = run[q].newTransactions
        /\ Count(run[r].outcomes, "duplicate") > 0
        /\ Count(run[q].outcomes, "stored") > 0
        /\ Len(roundup_records) = Count(run[q].outcomes, "stored")

\* C4: once two tracking runs for a wallet have both answered with
\* transfers processed, the stored baseline is the newest transfer either of
\* them fetched: the run that fetched the older batch has not overwritten it.
C4_Claim_LoserDoesNotOverwrite ==
    \A r, q \in Runs :
        (/\ r # q
         /\ run[r].op = "track" /\ run[r].pc = "done"
         /\ run[q].op = "track" /\ run[q].pc = "done"
         /\ run[r].address = run[q].address
         /\ run[r].response.processed > 0 /\ run[q].response.processed > 0)
        => Baseline(run[r].address)
             = Max(run[r].response.newBaseline, run[q].response.newBaseline)

C6_SkipWithoutStall ==
    [][\A r \in Runs :
         LET batch == run[r].newTransactions
             answer == run'[r].response
         IN  /\ (TrackAt(r, "advance") /\ Acts(r))
                 => /\ batch # <<>>
                    /\ Baseline(run[r].address)' = batch[1].signature
                    /\ run'[r].pc = "report"
             /\ (TrackAt(r, "report") /\ Acts(r))
                 => /\ answer.status = 200
                    /\ answer.processed = Len(batch)
                    /\ answer.stored = Count(run[r].outcomes, "stored")
                    /\ answer.skipped = Len(batch) - answer.stored
                    /\ answer.newBaseline = batch[1].signature
                    /\ Baseline(run[r].address) = batch[1].signature
                    /\ (run[r].outcomes = <<"stored", "unpriced", "stored">>
                        => /\ answer.processed = 3
                           /\ answer.stored = 2
                           /\ answer.skipped = 1)]_vars

\* Three new transfers, the middle one without a price, and the baseline is
\* at the newest of them
C6_Witness ==
    \E r \in Runs :
        /\ TrackAt(r, "report")
        /\ run[r].outcomes = <<"stored", "unpriced", "stored">>
        /\ Baseline(run[r].address) = run[r].newTransactions[1].signature
        /\ run[r].tracking.last_tracked_tx < run[r].newTransactions[3].signature

\* C7: every stored entry's round-up amount, as persisted, is at least 0 and
\* under one dollar.
C7_Claim_StoredRoundupUnderOne ==
    \A i \in 1..Len(roundup_records) :
        /\ roundup_records[i].round_up_value >= 0
        /\ roundup_records[i].round_up_value < Mill

SumOfAllEntries(w) ==
    SumRoundups(roundup_records, RowsOf(roundup_records, w),
                1, Len(roundup_records))

\* C9: getTotalRoundup of a wallet is the sum of the round-up amounts of all
\* its entries, rounded to 2 decimals, however many entries it has.
C9_Claim_TotalIsSumOfAllEntries ==
    \A w \in Wallets :
        getTotalRoundup(roundup_records, w) = ToFixed2(SumOfAllEntries(w))

\* C10: isReadyForInvestment of a wallet is true exactly when its stored
\* round-up amounts sum to at least 1.00.
C10_Claim_ReadyIffSumAtLeastOne ==
    \A w \in Wallets :
        isReadyForInvestment(roundup_records, w) <=> SumOfAllEntries(w) >= Mill

\* C11: every successful answer of a tracking run, the one for zero new
\* transfers included, carries processed, stored, skipped, totalRoundup,
\* newBaseline and a readiness flag, and the flag is totalRoundup >= 1.00 for
\* the total of that answer.
C11_Claim_AnswerCarriesReadiness ==
    \A r \in Runs :
        (run[r].op = "track" /\ run[r].pc = "done" /\ run[r].response.status = 200)
        => /\ run[r].response.isReadyForInvestment # "absent"
           /\ run[r].response.isReadyForInvestment
                = BoolText(run[r].response.totalRoundup >= Mill)

\* C12: a transfer whose entry could not be recorded because of a persistence
\* error other than a duplicate key is not passed by the baseline: the run
\* that met the error does not advance the baseline to it or beyond.
C12_Claim_BaselineStaysBeforeUnrecorded ==
    \A r \in Runs :
        \A k \in 1..Len(run[r].outcomes) :
            run[r].outcomes[k] = "error"
            => Baseline(run[r].address) < run[r].newTransactions[k].signature

InitAt(r, pc) == run[r].op = "init" /\ run[r].pc = pc

\* C13: wallet-init on a wallet that has a baseline answers with that
\* baseline and isNewWallet false, and leaves the stored baseline (and the
\* ledger) as they are, whatever has appeared upstream since.
C13_InitIdempotent ==
    [][\A r \in Runs :
         (InitAt(r, "check") /\ Acts(r) /\ run[r].address \in Wallets
          /\ ~NoBaseline(run[r].address))
         => /\ run'[r].pc = "done"
            /\ run'[r].response.status = 200
            /\ run'[r].response.newBaseline = Baseline(run[r].address)
            /\ run'[r].response.isNewWallet = "false"
            /\ UNCHANGED <<wallet_tracking, roundup_records>>]_vars

\* wallet-init answered with the existing baseline while newer transactions
\* of the wallet were upstream
C13_Witness ==
    \E r \in Runs :
        /\ InitAt(r, "done")
        /\ run[r].response.isNewWallet = "false"
        /\ run[r].response.newBaseline = Baseline(run[r].address)
        /\ Baseline(run[r].address) # NullSig
        /\ Baseline(run[r].address) < feed[run[r].address][1].signature

\* The address fails the validation of the wallet-init route
Malformed(address) ==
    \/ address = ""
    \/ AddressLength(address) < MinAddressLength
    \/ AddressLength(address) > MaxAddressLength

\* C14: a wallet-init call for a malformed address ends with the
\* invalid-address error, one for a wallet without any transaction upstream
\* ends with the no-transactions error; neither creates or changes a baseline
\* record or a ledger entry, and the wallet is still without a baseline, which
\* is what makes a tracking run fail as not initialized.
C14_FailedInitHasNoEffect ==
    [][\A r \in Runs :
         /\ (InitAt(r, "check") /\ Acts(r) /\ Malformed(run[r].address))
             => /\ run'[r].pc = "done"
                /\ run'[r].response.status = 400
                /\ run'[r].response.error \in {"Invalid wallet address",
                                               "Invalid wallet address format"}
                /\ UNCHANGED <<wallet_tracking, roundup_records>>
         /\ (InitAt(r, "recent") /\ Acts(r) /\ feed[run[r].address] = <<>>)
             => /\ run'[r].pc = "done"
                /\ run'[r].response.status = 404
                /\ run'[r].response.error = "No transactions found for this wallet"
                /\ UNCHANGED <<wallet_tracking, roundup_records>>
                /\ NoBaseline(run[r].address)']_vars

\* wallet-init ended with the no-transactions error for a wallet that has no
\* transaction upstream, and the wallet has no baseline
C14_Witness ==
    \E r \in Runs :
        /\ InitAt(r, "done")
        /\ run[r].response.status = 404
        /\ feed[run[r].address] = <<>>
        /\ NoBaseline(run[r].address)

\* C15: a request during which the call to the transfer source failed ends
\* with a source failure: wallet-init does not answer that the wallet has no
\* transactions, tracking does not answer with a successful empty run.
C15_Claim_SourceFailureIsSurfaced ==
    \A r \in Runs :
        (run[r].pc = "done" /\ run[r].sourceFailed)
        => /\ run[r].response.status = 500
           /\ run[r].response.error = HeliusError

\* C16: every transfer fetchOutgoingTransactions returns for a wallet has the
\* wallet as the sender of the transfer whose amount and asset it reports.
C16_Claim_FetchedTransfersAreSentByWallet ==
    \A r \in Runs :
        run[r].op = "track"
        => \A k \in 1..Len(run[r].newTransactions) :
              run[r].newTransactions[k].fromAddress = run[r].address

\* C17: fetchOutgoingTransactions returns no transfer that has the wallet as
\* both sender and recipient, and no entry is recorded for such a transfer.
C17_Claim_NoSelfTransfer ==
    /\ \A r \in Runs :
          run[r].op = "track"
          => \A k \in 1..Len(run[r].newTransactions) :
                ~(/\ run[r].newTransactions[k].fromAddress = run[r].address
                  /\ run[r].newTransactions[k].toAddress = run[r].address)
    /\ \A i \in 1..Len(roundup_records) :
          \A w \in Wallets : \A k \in 1..Len(feed[w]) :
              (/\ roundup_records[i].wallet_address = w
               /\ feed[w][k].signature = roundup_records[i].transaction_id
               /\ feed[w][k].nativeTransfers # <<>>)
              => ~(/\ feed[w][k].nativeTransfers[1].fromUserAccount = w
                   /\ feed[w][k].nativeTransfers[1].toUserAccount = w
                   /\ feed[w][k].tokenTransfers = <<>>)

\* C18: a request for the recorded round-ups changes no baseline record and no
\* ledger entry, and for every wallet address, initialized or not, it ends
\* with a success answer: no records, total 0 and not ready when the wallet
\* has no entries.
C18_GetRoundupsReadOnlyAndSucceeds ==
    [][\A r \in Runs :
          (run'[r].op = "get" /\ Acts(r))
          => /\ UNCHANGED <<wallet_tracking, roundup_records>>
             /\ (run'[r].pc = "done" /\ run'[r].address # "")
                => /\ run'[r].response.status = 200
                   /\ run'[r].response.isReadyForInvestment \in {"true", "false"}
                   /\ RowsOf(roundup_records, run'[r].address) = {}
                      => /\ run'[r].response.count = 0
                         /\ run'[r].response.totalRoundup = 0
                         /\ run'[r].response.isReadyForInvestment = "false"]_vars

\* A wallet that has no tracking record got a success answer with no records
C18_Witness ==
    \E r \in Runs :
        /\ run[r].op = "get" /\ run[r].pc = "done"
        /\ run[r].address \in Wallets
        /\ ~wallet_tracking[run[r].address].exists
        /\ run[r].response.status = 200
        /\ run[r].response.count = 0
        /\ run[r].response.isReadyForInvestment = "false"

\* C19: runs for different wallets are independent: what a run for a wallet
\* does with a transfer depends on that wallet's entries only, so a transfer
\* is skipped as already recorded only when the wallet's own ledger holds an
\* entry for it.
C19_Claim_SkippedOnlyForOwnEntry ==
    \A r \in Runs : \A k \in 1..Len(run[r].outcomes) :
        run[r].outcomes[k] = "duplicate"
        => \E i \in 1..Len(roundup_records) :
              /\ roundup_records[i].wallet_address = run[r].address
              /\ roundup_records[i].transaction_id =
                    run[r].newTransactions[k].signature

\* C20: no tracking run records an entry for the transfer an initialization
\* set as the wallet's baseline, nor for an older one: once the initialization
\* that created the wallet's record has answered with its baseline, every
\* entry recorded for the wallet is for a transfer newer than that baseline.
C20_Claim_NoEntryUpToInitialBaseline ==
    [][\A r \in Runs :
          (/\ run[r].op = "init" /\ run[r].pc = "done"
           /\ run[r].response.status = 200
           /\ run[r].response.isNewWallet = "true")
          => \A i \in (Len(roundup_records) + 1)..Len(roundup_records') :
                roundup_records'[i].wallet_address = run[r].address
                => roundup_records'[i].transaction_id > run[r].response.newBaseline]_vars

\* C21: a transfer whose price lookup gave zero (or failed, which gives zero)
\* gets no entry and is counted as skipped, the run goes on with the next
\* transfer of the batch, and a transfer that has a price is recorded; no
\* entry is valued at a price of zero.
C21_UnpricedSkippedAndContained ==
    /\ [](\A i \in 1..Len(roundup_records) : roundup_records[i].usd_value > 0)
    /\ [][\A r \in Runs :
            (TrackAt(r, "process") /\ Acts(r))
            => LET outcome == run'[r].outcomes[Len(run'[r].outcomes)]
                   last == run[r].i = Len(run[r].newTransactions)
               IN  /\ Len(run'[r].outcomes) = run[r].i
                   /\ run'[r].op = "track"
                   /\ run'[r].pc = IF last THEN "advance" ELSE "process"
                   /\ run'[r].i = run[r].i + 1
                   /\ outcome = "unpriced"
                      => /\ roundup_records' = roundup_records
                         /\ run'[r].skipped = run[r].skipped + 1
                         /\ run'[r].stored = run[r].stored
                   /\ outcome = "stored"
                      => /\ Len(roundup_records') = Len(roundup_records) + 1
                         /\ roundup_records'[Len(roundup_records')].transaction_id
                               = Current(r).signature
                         /\ run'[r].stored = run[r].stored + 1]_vars

\* A batch whose first transfer had no price and whose second was recorded
C21_Witness ==
    \E r \in Runs :
        /\ TrackAt(r, "advance")
        /\ run[r].outcomes = <<"unpriced", "stored">>
        /\ EntriesOf(run[r].newTransactions[1].signature) = {}
        /\ EntriesOf(run[r].newTransactions[2].signature) # {}

\* C22: a wallet that has a baseline keeps it: whatever requests are served,
\* successful, failed or overlapping, its record stays and holds a non-null
\* transfer id; only the id changes.
C22_NoWayBackToUninitialized ==
    [][\A w \in Wallets :
          hasBaseline(wallet_tracking[w]) => hasBaseline(wallet_tracking'[w])]_vars

\* An initialized wallet whose initialization request has just failed at the
\* insert, another request having created the record in the meantime
C22_Witness ==
    \E r \in Runs :
        /\ run[r].op = "init" /\ run[r].pc = "done"
        /\ run[r].response.status = 500
        /\ run[r].address \in Wallets
        /\ hasBaseline(wallet_tracking[run[r].address])

\* The transfers parseTransaction gives as sent by the wallet among the
\* transactions txs, in their order
RECURSIVE SentAmong(_, _)
SentAmong(txs, w) ==
    IF txs = <<>> THEN <<>>
    ELSE parseTransaction(Head(txs), w) \o SentAmong(Tail(txs), w)

\* The transactions of a feed that come before the one with signature since
\* (all of them when the feed has no such transaction)
NewerThan(txs, since) ==
    LET at == IndexOfSig(txs, since, 1)
    IN  IF at = 0 THEN txs ELSE SubSeq(txs, 1, at - 1)

C24_Claim_BaselineNotPastUnfetched ==
    [][\A r \in Runs :
          (TrackAt(r, "advance") /\ Acts(r))
          => LET address == run[r].address
                 fetched == {run[r].newTransactions[j].signature :
                               j \in 1..Len(run[r].newTransactions)}
             IN  \A k \in 1..Len(feed[address]) :
                    (/\ feed[address][k].signature > run[r].tracking.last_tracked_tx
                     /\ feed[address][k].signature <= Baseline(address)'
                     /\ parseTransaction(feed[address][k], address) # <<>>)
                    => feed[address][k].signature \in fetched]_vars

\* C25: initialization requests for a wallet that has transactions succeed
\* also when they overlap: each ends with a success answer, and the wallet
\* then has its record with a baseline.
C25_Claim_OverlappingInitsSucceed ==
    \A r \in Runs :
        (/\ run[r].op = "init" /\ run[r].pc = "done"
         /\ run[r].address \in Wallets
         /\ run[r].response.status # 404)
        => /\ run[r].response.status = 200
           /\ hasBaseline(wallet_tracking[run[r].address])

\* C26: a run that stored entries and then failed at the baseline update can
\* be repeated: the next run fetches the same transfers, stores no second
\* entry for a recorded one and counts it as skipped, and, its update
\* succeeding, sets the baseline to the newest transfer and reports the total
\* of one round-up per transfer.
C26_RetryAfterFailedAdvanceIsSafe ==
    /\ [](\A i, j \in 1..Len(roundup_records) :
            (/\ roundup_records[i].wallet_address = roundup_records[j].wallet_address
             /\ roundup_records[i].transaction_id = roundup_records[j].transaction_id)
            => i = j)
    /\ [][\A r \in Runs :
            /\ (TrackAt(r, "process") /\ Acts(r)
                /\ EntriesOf(Current(r).signature) # {})
               => /\ roundup_records' = roundup_records
                  /\ run'[r].outcomes[Len(run'[r].outcomes)] # "stored"
                  /\ run'[r].skipped = run[r].skipped + 1
                  /\ run'[r].stored = run[r].stored
            /\ (TrackAt(r, "advance") /\ Acts(r))
               => \/ /\ run'[r].pc = "report"
                     /\ Baseline(run[r].address)' = run[r].newTransactions[1].signature
                  \/ /\ run'[r].pc = "done"
                     /\ run'[r].response.status = 500
                     /\ wallet_tracking' = wallet_tracking
            /\ (TrackAt(r, "report") /\ Acts(r))
               => /\ run'[r].response.status = 200
                  /\ run'[r].response.totalRoundup
                        = ToFixed2(SumOfAllEntries(run[r].address))
                  /\ run'[r].response.skipped
                        = Len(run[r].newTransactions) - run[r].stored]_vars

\* The repeated run: every transfer of its batch was already recorded by the
\* run that failed, none was stored again, and the baseline is at the newest
C26_Witness ==
    \E r \in Runs :
        /\ TrackAt(r, "report")
        /\ Len(run[r].outcomes) >= 2
        /\ \A k \in 1..Len(run[r].outcomes) :
              /\ run[r].outcomes[k] = "duplicate"
              /\ Cardinality(EntriesOf(run[r].newTransactions[k].signature)) = 1
        /\ run[r].skipped = Len(run[r].newTransactions)
        /\ Baseline(run[r].address) = run[r].newTransactions[1].signature

\* The mints a price is known for: the stablecoins at one dollar, and the
\* coins of the oracle's map
PricedMints == {UsdcMainnetMint, UsdcDevnetMint, UsdtMint, WrappedSolMint, MSolMint}

\* C27 as claimed: every entry is valued at the price of the asset that was
\* transferred; there is no entry for a transfer of a token whose mint has no
\* known price, and an entry of a stablecoin transfer is valued at one dollar
\* per token.
C27_Claim_ValuedAtPriceOfOwnAsset ==
    \A i \in 1..Len(roundup_records) :
        LET e == roundup_records[i]
        IN  /\ e.token_mint # NullMint => e.token_mint \in PricedMints
            /\ e.token_mint \in {UsdcMainnetMint, UsdcDevnetMint, UsdtMint}
               => e.usd_value = ToFixed2(e.token_amount * 10)

\* C28 as claimed: in every answer of the GET route the readiness flag is the
\* comparison of the total carried in the same answer with one dollar, also
\* when a track run records entries while the request is served.
C28_Claim_GetAnswerConsistent ==
    \A r \in Runs :
        (run[r].op = "get" /\ run[r].pc = "done" /\ run[r].response.status = 200)
        => run[r].response.isReadyForInvestment
             = BoolText(run[r].response.totalRoundup >= Mill)

\* C29 as claimed: a track run is never left waiting on a price request that
\* gets no response: a run that awaits a price can always take a step of its
\* own (the request is timed out and the run goes on to the next transfer,
\* the baseline and the answer).
C29_Claim_RunNotHeldByPriceRequest ==
    \A r \in Runs : TrackAt(r, "lookup") => ENABLED LookupStep(r)

\* C30 as claimed: a lookup returns the cached quote, tagged "cached" and
\* without a request to CoinGecko, exactly when the cache holds an entry for
\* the asset whose age is strictly under the cache duration; otherwise
\* CoinGecko is queried, and the quote it answers is cached and returned
\* tagged with the source.
C30_Claim_CacheHitOnlyUnderDuration ==
    probe.op = "oracle" /\ probe.call.key # ""
    => LET c == probe.call
           live == c.seen # <<>> /\ c.at - c.seen[1].timestamp < cacheDuration
       IN  IF live
           THEN /\ ~c.queried
                /\ c.result.source = "cached"
                /\ c.result.price = c.seen[1].price
           ELSE /\ c.queried
                /\ c.result.source # "cached"
                /\ c.result.price # 0 => probe.priceCache[c.key] = <<c.result>>

=============================================================================
